---- MODULE Spec2Model ----
(***************************************************************************)
(* Room Session Orchestrator of wwyd (server.ts): one room, its players,   *)
(* the socket registry, the room deletion timer, the read-delay and answer *)
(* timers, and the judging pass.  Every socket handler is an async         *)
(* function: it is modelled as a process that takes one step per store     *)
(* operation it awaits, so that handlers interleave exactly where the code *)
(* yields.                                                                 *)
(***************************************************************************)
EXTENDS Integers, Sequences, FiniteSets, Bags, TLC

(***************************************************************************)
(* Universe and bounds                                                     *)
(***************************************************************************)
None == "none"

PlayerIds == {"A", "B", "C"}

\* the connections; Owner is the playerId the client announces on it (s4 is
\* a second tab of B's browser)
Sockets == {"s1", "s2", "s3", "s4"}

Owner(s) ==
    CASE s = "s1" -> "A" [] s = "s2" -> "B" [] s = "s4" -> "B" [] OTHER -> "C"

\* the nickname a player uses; B and C differ only in letter case
Nick(id) == CASE id = "A" -> "ann" [] id = "B" -> "bob" [] OTHER -> "Bob"

\* handlers (async functions) that may be in flight at once
MaxProcs == 2

\* room capacity checked by joinRoom
RoomCap == 8

\* sentinel for a key that is absent from a numeric map or field
Absent == -1

(***************************************************************************)
(* State                                                                   *)
(***************************************************************************)
VARIABLES
    roomExists,            \* the Room document is in the store
    roomStatus,            \* room.status
    players,               \* room.players, in list order
    gs,                    \* room.gameState
    socketToPlayer,        \* registry: socket -> playerId (None: no entry)
    sockUp,                \* the transport of the socket is connected
    joined,                \* sockets joined to the room's broadcast group
    pendingRoomDeletions,  \* the room's entry in pendingRoomDeletions
    orphanTimers,          \* armed deletion timers no longer in the map
    readDelays,            \* armed read-delay timeouts (question-display)
    timers,                \* running answer timers (setInterval closures)
    procs,                 \* handlers in flight, each at an await
    games,                 \* history: game starts the model has followed
    judgeCalls,            \* history: AIService.judgeAnswers calls per round
    roundStart,            \* history: scores when the round's answering began
    roomCache              \* the room's entry in roomCache, against the store

dbVars == <<roomExists, roomStatus, players, gs>>
sockVars == <<socketToPlayer, sockUp, joined>>
delVars == <<pendingRoomDeletions, orphanTimers>>
timerVars == <<readDelays, timers>>
histVars == <<games, judgeCalls, roundStart>>
vars == <<roomExists, roomStatus, players, gs, socketToPlayer, sockUp, joined,
          pendingRoomDeletions, orphanTimers, readDelays, timers, procs,
          games, judgeCalls, roundStart, roomCache>>

(***************************************************************************)
(* Data model (models/Room.ts)                                             *)
(***************************************************************************)
Player(id, host, conn) ==
    [id |-> id, nickname |-> Nick(id), isHost |-> host, isConnected |-> conn]

NoAnswers == [p \in PlayerIds |-> None]

NoScores == [p \in PlayerIds |-> Absent]

NoResult == [winners |-> {}, explanation |-> None]

\* keys of a map stored as a total function with a sentinel
Keys(m, absent) == {p \in PlayerIds : m[p] # absent}

\* schema defaults of gameState
DefaultGameState ==
    [status |-> "waiting", round |-> 0, totalRounds |-> 5,
     categorySelector |-> None, categories |-> {}, currentCategory |-> None,
     judgingStyle |-> None, question |-> None, timeRemaining |-> Absent,
     answers |-> NoAnswers, scores |-> NoScores, judgingResult |-> NoResult,
     roundHistory |-> <<>>]

Ids(ps) == {ps[i].id : i \in DOMAIN ps}

\* Array.find / findIndex by id: index of the first match, 0 when none
FindPlayer(ps, id) ==
    IF \E i \in DOMAIN ps : ps[i].id = id
    THEN CHOOSE i \in DOMAIN ps :
            ps[i].id = id /\ \A j \in DOMAIN ps : ps[j].id = id => i <= j
    ELSE 0

\* updateOne({"players.id": id}, {$set: {"players.$.isConnected": v}})
SetConnected(ps, id, v) ==
    LET i == FindPlayer(ps, id)
    IN  IF i = 0 THEN ps ELSE [ps EXCEPT ![i].isConnected = v]

\* {$pull: {players: {id}}}
PullPlayer(ps, id) == SelectSeq(ps, LAMBDA p : p.id # id)

Hosts(ps) == {i \in DOMAIN ps : ps[i].isHost}

(***************************************************************************)
(* Room Cache (getRoomWithCache / invalidateRoomCache).  roomCache is      *)
(* "none" (no entry), "fresh" (the entry is the stored document) or        *)
(* "stale" (the store has changed since the entry was written).  Every     *)
(* caller passes forceFresh, so a read returns the stored document and     *)
(* writes it to the entry; the entry's age is never looked at.             *)
(***************************************************************************)
\* a step that does not touch the cache: the entry falls behind when the
\* step changes the stored document
CacheKept ==
    roomCache' = IF roomCache = "fresh" /\ dbVars' # dbVars THEN "stale"
                 ELSE roomCache

\* getRoomWithCache(roomCode, true) with nothing written afterwards
CacheFetched ==
    roomCache' = IF roomExists' THEN "fresh"
                 ELSE IF roomCache = "fresh" /\ dbVars' # dbVars THEN "stale"
                 ELSE roomCache

\* getRoomWithCache(roomCode, true), then a write to the store
CacheFetchedThenWritten ==
    roomCache' = IF roomExists
                 THEN (IF dbVars' # dbVars THEN "stale" ELSE "fresh")
                 ELSE roomCache

\* a write followed by invalidateRoomCache
CacheInvalidated ==
    roomCache' = IF roomExists THEN "none" ELSE roomCache

\* a write followed by invalidateRoomCache and getRoomWithCache(roomCode,
\* true)
CacheRefetched == roomCache' = IF roomExists' THEN "fresh" ELSE "none"

(***************************************************************************)
(* Handlers in flight                                                      *)
(***************************************************************************)
One(r) == SetToBag({r})

Spawn(r) == procs' = procs (+) One(r)

Retire(r) == procs' = procs (-) One(r)

Become(r, q) == procs' = (procs (-) One(r)) (+) One(q)

InFlight == BagToSet(procs)

Room(n) == BagCardinality(procs) + n <= MaxProcs

\* the clients of the model have one event outstanding per connection: a
\* connection's next event arrives once the handler of its last one has
\* finished (handlers of different connections, timers, and a connection's
\* own handshake and disconnect interleave freely)
Idle(s) ==
    \A r \in InFlight : r.sock = s => r.kind \in {"connection", "disconnect"}

\* a client may repeat an event (a second click) while the handler of the
\* first is still running: at most MaxEvents handlers of a connection's
\* events run at once
MaxEvents == 2

Repeated(s) ==
    /\ ~Idle(s)
    /\ BagCardinality([r \in {q \in InFlight :
                                 /\ q.sock = s
                                 /\ q.kind \notin {"connection", "disconnect"}}
                          |-> procs[r]]) < MaxEvents

(***************************************************************************)
(* Deletion Scheduler (scheduleRoomDeletion / cancelRoomDeletion)          *)
(* pendingRoomDeletions is "none" (no entry), "armed" (entry, timer live)  *)
(* or "fired" (entry still there, its callback is running).                *)
(***************************************************************************)
\* deletion timers that may be armed outside the map at once
MaxOrphans == 1

\* clearTimeout + delete of the old entry, then a new timer and entry
scheduleRoomDeletion ==
    /\ pendingRoomDeletions' = "armed"
    /\ UNCHANGED orphanTimers

cancelRoomDeletion ==
    /\ pendingRoomDeletions' = "none"
    /\ UNCHANGED orphanTimers

\* pendingRoomDeletions.delete(roomCode) at the end of a timer callback: it
\* drops whatever entry is there, also that of a timer armed meanwhile
DropDeletionEntry ==
    /\ pendingRoomDeletions' = "none"
    /\ orphanTimers' = IF pendingRoomDeletions = "armed"
                        THEN orphanTimers + 1 ELSE orphanTimers

(***************************************************************************)
(* io.on('connection'): handshake with (playerId, roomCode, nickname)      *)
(***************************************************************************)
Connection(s) ==
    LET pid == Owner(s)
        dup == {e \in Sockets \ {s} : socketToPlayer[e] = pid}
        live == {e \in dup : sockUp[e]}
        closing == {[kind |-> "disconnect", pc |-> "update", sock |-> e,
                     pid |-> pid] : e \in live}
    IN  /\ ~sockUp[s]
        /\ socketToPlayer[s] = None
        /\ \A r \in InFlight : r.sock # s
        /\ Room(1 + Cardinality(live))
        /\ sockUp' = [e \in Sockets |->
                         IF e = s THEN TRUE
                         ELSE IF e \in live THEN FALSE ELSE sockUp[e]]
        /\ socketToPlayer' = [e \in Sockets |->
                         IF e = s THEN pid
                         ELSE IF e \in dup THEN None ELSE socketToPlayer[e]]
        /\ joined' = (joined \ live) \cup {s}
        /\ procs' = (procs (+) SetToBag(closing))
                      (+) One([kind |-> "connection", pc |-> "update",
                               sock |-> s, pid |-> pid])
        /\ UNCHANGED <<dbVars, delVars, timerVars, histVars>>
        /\ CacheKept

\* a handshake whose query lacks playerId, roomCode or nickname: the socket
\* is connected and not registered ('Incomplete connection info')
ConnectionBare(s) ==
    /\ ~sockUp[s]
    /\ socketToPlayer[s] = None
    /\ \A r \in InFlight : r.sock # s
    /\ sockUp' = [sockUp EXCEPT ![s] = TRUE]
    /\ UNCHANGED <<dbVars, socketToPlayer, joined, delVars, timerVars, procs,
                   histVars>>
    /\ CacheKept

\* findOne, then updateOne players.$.isConnected = true when the player is there
ConnectionUpdate(r) ==
    /\ r \in InFlight /\ r.kind = "connection"
    /\ players' = IF roomExists THEN SetConnected(players, r.pid, TRUE)
                   ELSE players
    /\ Retire(r)
    /\ UNCHANGED <<roomExists, roomStatus, gs, sockVars, delVars, timerVars, histVars>>
    /\ CacheKept

(***************************************************************************)
(* socket.on('disconnect')                                                 *)
(***************************************************************************)
\* the transport closes; the handler reads the registry synchronously
Disconnect(s) ==
    /\ sockUp[s]
    /\ Room(1)
    /\ sockUp' = [sockUp EXCEPT ![s] = FALSE]
    /\ joined' = joined \ {s}
    /\ IF socketToPlayer[s] # None
       THEN Spawn([kind |-> "disconnect", pc |-> "update", sock |-> s,
                   pid |-> socketToPlayer[s]])
       ELSE UNCHANGED procs
    /\ UNCHANGED <<dbVars, socketToPlayer, delVars, timerVars, histVars>>
    /\ CacheKept

\* a disconnect handler that removes the player instead of marking it
DisconnectUpdateRemoves(r) ==
    /\ r \in InFlight /\ r.kind = "disconnect" /\ r.pc = "update"
    /\ IF roomExists /\ FindPlayer(players, r.pid) # 0
       THEN /\ players' = PullPlayer(players, r.pid)
            /\ Become(r, [r EXCEPT !.pc = "cleanup"])
            /\ UNCHANGED socketToPlayer
       ELSE /\ socketToPlayer' = [socketToPlayer EXCEPT ![r.sock] = None]
            /\ Retire(r)
            /\ UNCHANGED players
    /\ UNCHANGED <<roomExists, roomStatus, gs, sockUp, joined, delVars, timerVars, histVars>>
    /\ CacheFetchedThenWritten

\* getRoomWithCache, find the player, updateOne players.$.isConnected = false
DisconnectUpdate(r) ==
    /\ r \in InFlight /\ r.kind = "disconnect" /\ r.pc = "update"
    /\ IF roomExists /\ FindPlayer(players, r.pid) # 0
       THEN /\ players' = SetConnected(players, r.pid, FALSE)
            /\ Become(r, [r EXCEPT !.pc = "cleanup"])
            /\ UNCHANGED socketToPlayer
       ELSE /\ socketToPlayer' = [socketToPlayer EXCEPT ![r.sock] = None]
            /\ Retire(r)
            /\ UNCHANGED players
    /\ UNCHANGED <<roomExists, roomStatus, gs, sockUp, joined, delVars, timerVars, histVars>>
    /\ CacheFetchedThenWritten

\* after the broadcast: socketToPlayer.delete(socket.id); socket.leave(room)
DisconnectCleanup(r) ==
    /\ r \in InFlight /\ r.kind = "disconnect" /\ r.pc = "cleanup"
    /\ socketToPlayer' = [socketToPlayer EXCEPT ![r.sock] = None]
    /\ joined' = joined \ {r.sock}
    /\ Retire(r)
    /\ UNCHANGED <<dbVars, sockUp, delVars, timerVars, histVars>>
    /\ CacheKept

(***************************************************************************)
(* socket.on('playerReconnected')                                          *)
(***************************************************************************)
\* findOne: the room exists and holds the player
PlayerReconnectedFind(s) ==
    /\ sockUp[s]
    /\ Idle(s)
    /\ Room(1)
    /\ roomExists
    /\ FindPlayer(players, Owner(s)) # 0
    /\ Spawn([kind |-> "playerReconnected", pc |-> "update", sock |-> s,
               pid |-> Owner(s)])
    /\ UNCHANGED <<dbVars, sockVars, delVars, timerVars, histVars>>
    /\ CacheKept

\* updateOne isConnected = true, register, join, cancelRoomDeletion
PlayerReconnectedUpdate(r) ==
    /\ r \in InFlight /\ r.kind = "playerReconnected"
    /\ players' = IF roomExists THEN SetConnected(players, r.pid, TRUE)
                   ELSE players
    /\ socketToPlayer' = [socketToPlayer EXCEPT ![r.sock] = r.pid]
    /\ joined' = IF sockUp[r.sock] THEN joined \cup {r.sock} ELSE joined
    /\ cancelRoomDeletion
    /\ Retire(r)
    /\ UNCHANGED <<roomExists, roomStatus, gs, sockUp, timerVars, histVars>>
    /\ CacheRefetched

(***************************************************************************)
(* socket.on('joinRoom')                                                   *)
(***************************************************************************)
\* a player of the room who is marked connected: no store write is awaited,
\* the socket is registered in the same turn
JoinRoomRejoin(s) ==
    LET i == FindPlayer(players, Owner(s))
    IN  /\ sockUp[s]
        /\ roomExists
        /\ i # 0 /\ players[i].isConnected
        /\ socketToPlayer' = [socketToPlayer EXCEPT ![s] = Owner(s)]
        /\ joined' = joined \cup {s}
        /\ cancelRoomDeletion
        /\ UNCHANGED <<dbVars, sockUp, timerVars, procs, histVars>>
        /\ CacheRefetched

\* findOne and the checks; the handler then awaits its store write
JoinRoomFind(s) ==
    LET pid == Owner(s)
        i == FindPlayer(players, pid)
    IN  /\ sockUp[s]
        /\ Idle(s)
        /\ Room(1)
        /\ roomExists
        /\ IF i # 0
           THEN /\ ~players[i].isConnected
                /\ Spawn([kind |-> "joinRoom", pc |-> "reconnect", sock |-> s,
                           pid |-> pid, isHost |-> FALSE])
           ELSE /\ Len(players) < RoomCap
                /\ \A j \in DOMAIN players : players[j].nickname # Nick(pid)
                /\ Spawn([kind |-> "joinRoom", pc |-> "push", sock |-> s,
                           pid |-> pid, isHost |-> (Len(players) = 0)])
        /\ UNCHANGED <<dbVars, sockVars, delVars, timerVars, histVars>>
        /\ CacheKept

\* updateOne isConnected = true for the returning player, then register
JoinRoomReconnect(r) ==
    /\ r \in InFlight /\ r.kind = "joinRoom" /\ r.pc = "reconnect"
    /\ players' = IF roomExists THEN SetConnected(players, r.pid, TRUE)
                   ELSE players
    /\ socketToPlayer' = [socketToPlayer EXCEPT ![r.sock] = r.pid]
    /\ joined' = IF sockUp[r.sock] THEN joined \cup {r.sock} ELSE joined
    /\ cancelRoomDeletion
    /\ Retire(r)
    /\ UNCHANGED <<roomExists, roomStatus, gs, sockUp, timerVars, histVars>>
    /\ CacheRefetched

\* a joinRoom that pushes the player and leaves the deletion timer armed
JoinRoomPushKeepsTimer(r) ==
    /\ r \in InFlight /\ r.kind = "joinRoom" /\ r.pc = "push"
    /\ players' = IF roomExists
                   THEN Append(players, Player(r.pid, r.isHost, TRUE))
                   ELSE players
    /\ socketToPlayer' = [socketToPlayer EXCEPT ![r.sock] = r.pid]
    /\ joined' = IF sockUp[r.sock] THEN joined \cup {r.sock} ELSE joined
    /\ UNCHANGED delVars
    /\ Retire(r)
    /\ UNCHANGED <<roomExists, roomStatus, gs, sockUp, timerVars, histVars>>
    /\ CacheRefetched

\* updateOne {$push: {players: player}}, then register
JoinRoomPush(r) ==
    /\ r \in InFlight /\ r.kind = "joinRoom" /\ r.pc = "push"
    /\ players' = IF roomExists
                   THEN Append(players, Player(r.pid, r.isHost, TRUE))
                   ELSE players
    /\ socketToPlayer' = [socketToPlayer EXCEPT ![r.sock] = r.pid]
    /\ joined' = IF sockUp[r.sock] THEN joined \cup {r.sock} ELSE joined
    /\ cancelRoomDeletion
    /\ Retire(r)
    /\ UNCHANGED <<roomExists, roomStatus, gs, sockUp, timerVars, histVars>>
    /\ CacheRefetched

(***************************************************************************)
(* socket.on('leaveRoom') and transferHostStatus                           *)
(***************************************************************************)
\* the leaving socket is deregistered and closed (socket.disconnect after
\* 100 ms finds no registry entry, so its disconnect handler does nothing)
LeaveCleanup(s) ==
    /\ socketToPlayer' = [socketToPlayer EXCEPT ![s] = None]
    /\ joined' = joined \ {s}
    /\ sockUp' = [sockUp EXCEPT ![s] = FALSE]

\* registry lookup, getRoomWithCache(fresh), find the leaving player
LeaveRoomChecks(s) ==
    LET pid == socketToPlayer[s]
        i == FindPlayer(players, pid)
    IN  /\ sockUp[s]
        /\ Room(1)
        /\ pid # None
        /\ roomExists
        /\ i # 0
        /\ Spawn([kind |-> "leaveRoom", pc |-> "pull", sock |-> s, pid |-> pid,
                   wasHost |-> players[i].isHost, idx |-> 0])
        /\ UNCHANGED <<dbVars, sockVars, delVars, timerVars, histVars>>
        /\ CacheFetched

LeaveRoomFind(s) == Idle(s) /\ LeaveRoomChecks(s)

\* leaveRoom emitted while another event of the connection is being handled
LeaveRoomAgain(s) == Repeated(s) /\ LeaveRoomChecks(s)

\* findOneAndUpdate {$pull: {players: {id}}}
LeaveRoomPull(r) ==
    /\ r \in InFlight /\ r.kind = "leaveRoom" /\ r.pc = "pull"
    /\ IF ~roomExists
       THEN /\ Retire(r)
            /\ UNCHANGED <<players, sockVars, delVars>>
       ELSE LET rest == PullPlayer(players, r.pid)
            IN  /\ players' = rest
                /\ IF r.wasHost /\ Len(rest) > 0
                   THEN /\ Become(r, [r EXCEPT !.pc = "transfer"])
                        /\ UNCHANGED <<sockVars, delVars>>
                   ELSE /\ IF Len(rest) = 0
                           THEN scheduleRoomDeletion
                           ELSE UNCHANGED delVars
                        /\ LeaveCleanup(r.sock)
                        /\ Retire(r)
    /\ UNCHANGED <<roomExists, roomStatus, gs, timerVars, histVars>>
    /\ CacheInvalidated

\* what follows transferHostStatus: the fresh read replaces the handler's
\* copy of the room, an empty room is scheduled for deletion, the socket goes
LeaveRoomFinish(r) ==
    /\ IF roomExists /\ Len(players') = 0
       THEN scheduleRoomDeletion
       ELSE UNCHANGED delVars
    /\ LeaveCleanup(r.sock)
    /\ Retire(r)

\* transferHostStatus: findOne, findIndex of the first connected player
LeaveRoomTransfer(r) ==
    LET conn == {i \in DOMAIN players : players[i].isConnected}
    IN  /\ r \in InFlight /\ r.kind = "leaveRoom" /\ r.pc = "transfer"
        /\ UNCHANGED <<dbVars, timerVars, histVars>>
        /\ IF roomExists /\ conn # {}
           THEN /\ Become(r, [r EXCEPT !.pc = "assign",
                                        !.idx = CHOOSE i \in conn :
                                                  \A j \in conn : i <= j])
                /\ UNCHANGED <<sockVars, delVars>>
           ELSE LeaveRoomFinish(r)
        /\ IF procs' = procs (-) One(r) THEN CacheRefetched ELSE CacheKept

\* an element a positional $set creates past the end of the array
NoPlayer == [id |-> None, nickname |-> None, isHost |-> FALSE,
             isConnected |-> TRUE]

\* findOneAndUpdate {$set: {"players.<idx>.isHost": true}}
AssignHost(ps, idx) ==
    [i \in 1..(IF idx > Len(ps) THEN idx ELSE Len(ps)) |->
        IF i = idx
        THEN [(IF i \in DOMAIN ps THEN ps[i] ELSE NoPlayer)
                 EXCEPT !.isHost = TRUE]
        ELSE IF i \in DOMAIN ps THEN ps[i] ELSE NoPlayer]

LeaveRoomAssign(r) ==
    /\ r \in InFlight /\ r.kind = "leaveRoom" /\ r.pc = "assign"
    /\ players' = IF roomExists THEN AssignHost(players, r.idx) ELSE players
    /\ LeaveRoomFinish(r)
    /\ UNCHANGED <<roomExists, roomStatus, gs, timerVars, histVars>>
    /\ CacheRefetched

(***************************************************************************)
(* socket.on('kickPlayer')                                                 *)
(***************************************************************************)
\* registry lookup, getRoomWithCache(fresh), host and target checks
KickPlayerFind(s, target) ==
    LET pid == socketToPlayer[s]
        i == FindPlayer(players, pid)
        t == FindPlayer(players, target)
    IN  /\ sockUp[s]
        /\ Idle(s)
        /\ Room(1)
        /\ pid # None
        /\ roomExists
        /\ i # 0 /\ players[i].isHost
        /\ t # 0 /\ ~players[t].isHost
        /\ Spawn([kind |-> "kickPlayer", pc |-> "pull", sock |-> s, pid |-> pid,
                   target |-> target])
        /\ UNCHANGED <<dbVars, sockVars, delVars, timerVars, histVars>>
        /\ CacheFetched

\* findOneAndUpdate {$pull}, then every live socket of the target is
\* deregistered, removed from the group and disconnected
KickPlayerPull(r) ==
    LET kicked == {e \in Sockets : socketToPlayer[e] = r.target /\ sockUp[e]}
    IN  /\ r \in InFlight /\ r.kind = "kickPlayer"
        /\ IF ~roomExists
           THEN UNCHANGED <<players, sockVars>>
           ELSE /\ players' = PullPlayer(players, r.target)
                /\ socketToPlayer' = [e \in Sockets |->
                        IF e \in kicked THEN None ELSE socketToPlayer[e]]
                /\ joined' = joined \ kicked
                /\ sockUp' = [e \in Sockets |->
                        IF e \in kicked THEN FALSE ELSE sockUp[e]]
        /\ Retire(r)
        /\ UNCHANGED <<roomExists, roomStatus, gs, delVars, timerVars, histVars>>
        /\ CacheInvalidated

(***************************************************************************)
(* The deletion timer's callback (scheduleRoomDeletion, setTimeout)        *)
(***************************************************************************)
DeletionProc == [kind |-> "deletion", pc |-> "check", sock |-> None]

\* the timer held in pendingRoomDeletions fires
DeletionTimeout ==
    /\ pendingRoomDeletions = "armed"
    /\ orphanTimers < MaxOrphans
    /\ Room(1)
    /\ pendingRoomDeletions' = "fired"
    /\ Spawn(DeletionProc)
    /\ UNCHANGED <<dbVars, sockVars, orphanTimers, timerVars, histVars>>
    /\ CacheKept

\* a timer fires whose map entry a finished callback has dropped
OrphanTimeout ==
    /\ orphanTimers > 0
    /\ Room(1)
    /\ orphanTimers' = orphanTimers - 1
    /\ Spawn(DeletionProc)
    /\ UNCHANGED <<dbVars, sockVars, pendingRoomDeletions, timerVars, histVars>>
    /\ CacheKept

\* findOne: the room is still there and empty
DeletionCheck(r) ==
    /\ r \in InFlight /\ r.kind = "deletion" /\ r.pc = "check"
    /\ IF roomExists /\ Len(players) = 0
       THEN /\ Become(r, [r EXCEPT !.pc = "delete"])
            /\ UNCHANGED delVars
       ELSE /\ DropDeletionEntry
            /\ Retire(r)
    /\ UNCHANGED <<dbVars, sockVars, timerVars, histVars>>
    /\ CacheKept

\* deleteOne({code}), roomEnded, pendingRoomDeletions.delete
DeletionDelete(r) ==
    /\ r \in InFlight /\ r.kind = "deletion" /\ r.pc = "delete"
    /\ roomExists' = FALSE
    /\ roomStatus' = "waiting"
    /\ players' = << >>
    /\ gs' = DefaultGameState
    /\ DropDeletionEntry
    /\ Retire(r)
    /\ UNCHANGED <<sockVars, timerVars, histVars>>
    /\ CacheKept

(***************************************************************************)
(* Game constants and helpers                                              *)
(***************************************************************************)
\* allCategories
Categories ==
    {"business", "scenario", "wouldYouRather", "pleadForYourLife", "escape"}

\* the categories the clients of the model pick from
CategoryInputs == {"business"}

\* the judging styles the Prompt-Generator answers with in the model
StyleInputs == {"humor"}

\* the answer texts the clients of the model send
TextInputs == {"", " ", "yes"}

\* String.prototype.trim over the texts of the model
Trim(text) == IF text = " " THEN "" ELSE text

\* questionResult.questionText: some non-empty text for the category
Question(c) == IF c = "business" THEN "q-business" ELSE "q-other"

\* rounds of a game (totalRounds is 5 in startGame; scaled down)
TotalRounds == 2

\* seconds written to gameState.timeRemaining by selectCategory
AnswerSeconds == 180

\* ticks of the answer countdown (startAnswerTimer(roomCode, 180); scaled down)
TimerTicks == 3

\* ticks between two store checks of the countdown (DB_CHECK_INTERVAL is
\* 15 s of 1 s ticks; scaled down)
CheckEvery == 2

\* points per winner
WinPoints == 3

\* Judge calls per round the model follows
MaxJudgeCalls == 2

\* startGame events the model follows
MaxGames == 1

\* an index of roundHistory that holds nothing (a hole, or past the end)
Hole == [set |-> FALSE, round |-> Absent, category |-> None, question |-> None,
         answers |-> NoAnswers, winners |-> {}, explanation |-> None]

\* !roundHistory[i] is false
HasEntry(h, i) == i \in DOMAIN h /\ h[i].set

\* roundHistory[i] = e (an assignment past the end leaves holes)
SetAt(h, i, e) ==
    IF i < 1 THEN h
    ELSE [j \in 1..(IF i > Len(h) THEN i ELSE Len(h)) |->
            IF j = i THEN e ELSE IF j \in DOMAIN h THEN h[j] ELSE Hole]

Connected(ps) == {ps[i].id : i \in {j \in DOMAIN ps : ps[j].isConnected}}

Registered(s) == sockUp[s] /\ socketToPlayer[s] # None

Judging == {r \in InFlight : r.kind = "judge"}

\* the model follows a bounded number of Judge calls per round
MayJudge ==
    /\ gs.round \in DOMAIN judgeCalls
    /\ judgeCalls[gs.round]
         + BagCardinality([r \in {q \in Judging : q.pc # "write"}
                             |-> procs[r]]) < MaxJudgeCalls

\* the countdowns, read-delay timeouts and their handlers the model follows
MaxTimers == 2

Pending ==
    readDelays + BagCardinality(timers)
      + BagCardinality([r \in {q \in InFlight :
                                 q.kind \in {"selectCategory", "readDelay"}}
                          |-> procs[r]])

(***************************************************************************)
(* socket.on('startGame')                                                  *)
(***************************************************************************)
\* registry lookup, findOne, host check, player count, initialGameState
StartGameFind(s) ==
    LET pid == socketToPlayer[s]
        i == FindPlayer(players, pid)
    IN  /\ Registered(s)
        /\ Idle(s)
        /\ Room(1)
        /\ roomExists
        /\ i # 0 /\ players[i].isHost
        /\ Len(players) >= 2
        /\ games + Cardinality({q \in InFlight : q.kind = "startGame"})
             < MaxGames
        /\ \E sel \in DOMAIN players :
              Spawn([kind |-> "startGame", pc |-> "set", sock |-> s,
                     pid |-> pid, ids |-> Ids(players),
                     selector |-> players[sel].id])
        /\ UNCHANGED <<dbVars, sockVars, delVars, timerVars, histVars>>
        /\ CacheKept

\* findOneAndUpdate {$set: {status: 'playing', currentRound: 1, gameState}}
StartGameSet(r) ==
    /\ r \in InFlight /\ r.kind = "startGame"
    /\ IF roomExists
       THEN /\ roomStatus' = "playing"
            /\ gs' = [DefaultGameState EXCEPT
                        !.status = "category-selection",
                        !.round = 1,
                        !.totalRounds = TotalRounds,
                        !.scores = [p \in PlayerIds |->
                                      IF p \in r.ids THEN 0 ELSE Absent],
                        !.categorySelector = r.selector,
                        !.categories = Categories]
            /\ roundStart' = gs'.scores
            /\ games' = games + 1
            /\ judgeCalls' = [n \in 1..TotalRounds |-> 0]
       ELSE UNCHANGED <<roomStatus, gs, histVars>>
    /\ Retire(r)
    /\ UNCHANGED <<roomExists, players, sockVars, delVars, timerVars>>
    /\ CacheKept

(***************************************************************************)
(* socket.on('selectCategory') and its read-delay timeout                  *)
(***************************************************************************)
\* registry lookup, findOne, phase and selector checks
SelectCategoryChecks(s, c) ==
    /\ Registered(s)
    /\ Room(1)
    /\ roomExists
    /\ gs.status = "category-selection"
    /\ gs.categorySelector = socketToPlayer[s]
    /\ Pending < MaxTimers
    /\ Spawn([kind |-> "selectCategory", pc |-> "set", sock |-> s,
              pid |-> socketToPlayer[s], category |-> c])
    /\ UNCHANGED <<dbVars, sockVars, delVars, timerVars, histVars>>
    /\ CacheKept

SelectCategoryFind(s, c) == Idle(s) /\ SelectCategoryChecks(s, c)

\* the selector's client emits selectCategory again before the first
\* handler has written
SelectCategoryAgain(s, c) == Repeated(s) /\ SelectCategoryChecks(s, c)

\* a selectCategory that stores the question and arms no read-delay timeout
SelectCategorySetUnarmed(r) ==
    /\ r \in InFlight /\ r.kind = "selectCategory"
    /\ IF roomExists
       THEN \E style \in StyleInputs :
                gs' = [gs EXCEPT !.status = "question-display",
                                 !.currentCategory = r.category,
                                 !.question = Question(r.category),
                                 !.judgingStyle = style,
                                 !.timeRemaining = AnswerSeconds,
                                 !.answers = NoAnswers]
       ELSE UNCHANGED gs
    /\ Retire(r)
    /\ UNCHANGED <<roomExists, roomStatus, players, sockVars, delVars,
                   timerVars, histVars>>
    /\ CacheKept

\* generateQuestion returned; findOneAndUpdate to question-display; the
\* 10 s read-delay timeout is armed
SelectCategorySet(r) ==
    /\ r \in InFlight /\ r.kind = "selectCategory"
    /\ IF roomExists
       THEN /\ \E style \in StyleInputs :
                gs' = [gs EXCEPT !.status = "question-display",
                                 !.currentCategory = r.category,
                                 !.question = Question(r.category),
                                 !.judgingStyle = style,
                                 !.timeRemaining = AnswerSeconds,
                                 !.answers = NoAnswers]
            /\ readDelays' = readDelays + 1
       ELSE UNCHANGED <<gs, readDelays>>
    /\ Retire(r)
    /\ UNCHANGED <<roomExists, roomStatus, players, sockVars, delVars, timers,
                   histVars>>
    /\ CacheKept

\* the read-delay timeout fires
ReadDelayTimeout ==
    /\ readDelays > 0
    /\ Room(1)
    /\ readDelays' = readDelays - 1
    /\ Spawn([kind |-> "readDelay", pc |-> "check", sock |-> None])
    /\ UNCHANGED <<dbVars, sockVars, delVars, timers, histVars>>
    /\ CacheKept

\* findOne({code}, status): only question-display goes on
ReadDelayCheck(r) ==
    /\ r \in InFlight /\ r.kind = "readDelay" /\ r.pc = "check"
    /\ IF roomExists /\ gs.status = "question-display"
       THEN Become(r, [r EXCEPT !.pc = "set"])
       ELSE Retire(r)
    /\ UNCHANGED <<dbVars, sockVars, delVars, timerVars, histVars>>
    /\ CacheKept

\* updateOne {$set: {'gameState.status': 'answering'}}
ReadDelaySet(r) ==
    /\ r \in InFlight /\ r.kind = "readDelay" /\ r.pc = "set"
    /\ IF roomExists
       THEN /\ gs' = [gs EXCEPT !.status = "answering"]
            /\ Become(r, [r EXCEPT !.pc = "timer"])
       ELSE /\ UNCHANGED gs
            /\ Retire(r)
    /\ UNCHANGED <<roomExists, roomStatus, players, sockVars, delVars,
                   timerVars, histVars>>
    /\ CacheRefetched

\* startAnswerTimer: getRoomWithCache(fresh); the interval starts only when
\* the room is in answering.  Its closure keeps the round it was started in
\* (roomDetails.currentRound), which no tick reads.
StartAnswerTimer(r) ==
    /\ r \in InFlight /\ r.kind = "readDelay" /\ r.pc = "timer"
    /\ IF roomExists /\ gs.status = "answering"
       THEN timers' = timers (+) One([timeRemaining |-> TimerTicks,
                                      gameStatus |-> "answering",
                                      sinceCheck |-> 0,
                                      currentRound |-> gs.round])
       ELSE UNCHANGED timers
    /\ Retire(r)
    /\ UNCHANGED <<dbVars, sockVars, delVars, readDelays, histVars>>
    /\ CacheFetched

(***************************************************************************)
(* The answer countdown (the setInterval callback of startAnswerTimer)     *)
(***************************************************************************)
JudgeProc == [kind |-> "judge", pc |-> "find", sock |-> None]

\* One tick.  Whether the periodic store check is due on the tick that
\* reaches DB_CHECK_INTERVAL depends on the milliseconds, so it is a choice
\* there and certain one tick later.  A countdown holds gameStatus
\* 'answering' for as long as its interval runs.
Tick(t) ==
    /\ BagIn(t, timers)
    /\ \E due \in BOOLEAN :
         /\ due => t.sinceCheck + 1 >= CheckEvery
         /\ ~due => t.sinceCheck + 1 <= CheckEvery
         /\ IF due /\ ~(roomExists /\ gs.status = "answering")
            THEN \* clearInterval: the room is gone or left answering
                 /\ timers' = timers (-) One(t)
                 /\ UNCHANGED procs
            ELSE IF t.timeRemaining - 1 <= 0
            THEN \* timer reached zero: clearInterval, judgeAnswers
                 /\ Room(1)
                 /\ MayJudge
                 /\ timers' = timers (-) One(t)
                 /\ Spawn(JudgeProc)
            ELSE /\ timers' = (timers (-) One(t)) (+)
                        One([t EXCEPT !.timeRemaining = @ - 1,
                                      !.sinceCheck =
                                          IF due THEN 0 ELSE @ + 1])
                 /\ UNCHANGED procs
    /\ UNCHANGED <<dbVars, sockVars, delVars, readDelays, histVars>>
    /\ CacheKept

(***************************************************************************)
(* socket.on('submitAnswer')                                               *)
(***************************************************************************)
\* registry lookup, empty check, findOne, phase check, duplicate check; the
\* document is changed in memory and handed to save()
SubmitAnswerFind(s, text) ==
    LET pid == socketToPlayer[s]
        answers == [gs.answers EXCEPT ![pid] = text]
        \* an element without an id is never among the answers' keys
        allPlayersAnswered ==
            \A p \in Connected(players) :
                p \in PlayerIds /\ answers[p] # None
    IN  /\ Registered(s)
        /\ Idle(s)
        /\ text # "" /\ Trim(text) # ""
        /\ Room(1)
        /\ roomExists
        /\ gs.status = "answering"
        /\ gs.answers[pid] = None
        /\ Spawn([kind |-> "submitAnswer", pc |-> "save", sock |-> s,
                  pid |-> pid, text |-> text, all |-> allPlayersAnswered,
                  round |-> gs.round,
                  seed |-> allPlayersAnswered
                             /\ ~HasEntry(gs.roundHistory, gs.round),
                  entry |-> [Hole EXCEPT !.set = TRUE,
                                         !.question = gs.question,
                                         !.category = gs.currentCategory,
                                         !.answers = answers]])
        /\ UNCHANGED <<dbVars, sockVars, delVars, timerVars, histVars>>
        /\ CacheKept

\* room.save(): the modified paths are written, whatever the stored phase
\* has become since findOne
SubmitAnswerSave(r) ==
    /\ r \in InFlight /\ r.kind = "submitAnswer"
    /\ IF roomExists
       THEN gs' = [gs EXCEPT
                     !.answers[r.pid] = r.text,
                     !.status = IF r.all THEN "judging" ELSE @,
                     !.timeRemaining = IF r.all THEN 0 ELSE @,
                     !.roundHistory =
                         IF r.seed THEN SetAt(@, r.round, r.entry) ELSE @]
       ELSE UNCHANGED gs
    /\ Retire(r)
    /\ UNCHANGED <<roomExists, roomStatus, players, sockVars, delVars,
                   timerVars, histVars>>
    /\ CacheKept

(***************************************************************************)
(* socket.on('triggerJudging') and judgeAnswers                            *)
(***************************************************************************)
\* registry lookup, findOne, phase check; then judgeAnswers is called
TriggerJudgingFind(s) ==
    /\ Registered(s)
    /\ Idle(s)
    /\ Room(1)
    /\ roomExists
    /\ gs.status = "judging"
    /\ MayJudge
    /\ Spawn([JudgeProc EXCEPT !.sock = s])
    /\ UNCHANGED <<dbVars, sockVars, delVars, timerVars, histVars>>
    /\ CacheKept

\* judgeAnswers: findOne with the projection
JudgeFind(r) ==
    /\ r \in InFlight /\ r.kind = "judge" /\ r.pc = "find"
    /\ IF roomExists
       THEN /\ Become(r, [kind |-> "judge", pc |-> "judging", sock |-> r.sock,
                          round |-> gs.round, answers |-> gs.answers,
                          scores |-> gs.scores, category |-> gs.currentCategory,
                          question |-> gs.question,
                          roundHistory |-> gs.roundHistory,
                          game |-> games])
       ELSE Retire(r)
    /\ UNCHANGED <<dbVars, sockVars, delVars, timerVars, histVars>>
    /\ CacheKept

\* updateOne {$set: {'gameState.status': 'judging'}}; then
\* AIService.judgeAnswers is called on the snapshot (counted for the round
\* of the game the snapshot was read in)
JudgeSetJudging(r) ==
    /\ r \in InFlight /\ r.kind = "judge" /\ r.pc = "judging"
    /\ IF roomExists
       THEN gs' = [gs EXCEPT !.status = "judging"]
       ELSE UNCHANGED gs
    /\ judgeCalls' = IF r.game = games /\ r.round \in DOMAIN judgeCalls
                     THEN [judgeCalls EXCEPT ![r.round] = @ + 1]
                     ELSE judgeCalls
    /\ Become(r, [r EXCEPT !.pc = "write"])
    /\ UNCHANGED <<roomExists, roomStatus, players, sockVars, delVars,
                   timerVars, games, roundStart>>
    /\ CacheKept

\* AIService.judgeAnswers on the answers it was given: no winner for no
\* answers, the respondent for one answer, otherwise one respondent or a tie
\* of two (picked by the model's reply or at random); NoResult is the call
\* throwing, which the caller catches with judgingResult left undefined.
\* The explanation is some text.
JudgeReplies(answers) ==
    LET ids == Keys(answers, None)
    IN  IF ids = {}
        THEN {[winners |-> {}, explanation |-> "text"]}
        ELSE IF Cardinality(ids) = 1
        THEN {[winners |-> ids, explanation |-> "text"]}
        ELSE {[winners |-> w, explanation |-> "text"] :
                  w \in {v \in SUBSET ids : Cardinality(v) \in {1, 2}}}
               \cup {NoResult}

\* judgeAnswers' fallback when the call failed or named no winner: a random
\* respondent, or no winner when nobody answered
Fallback(reply, answers) ==
    LET ids == Keys(answers, None)
    IN  IF reply # NoResult /\ reply.winners # {}
        THEN {reply}
        ELSE IF ids # {}
        THEN {[winners |-> {p}, explanation |-> "on break"] : p \in ids}
        ELSE {[winners |-> {}, explanation |-> "no answers"]}

\* what a judging pass leaves in judgingResult
JudgeOutcomes(answers) ==
    UNION {Fallback(reply, answers) : reply \in JudgeReplies(answers)}

\* scoreObj after the winners' points
Award(scores, winners) ==
    [p \in PlayerIds |->
        IF p \in winners
        THEN (IF scores[p] = Absent THEN 0 ELSE scores[p]) + WinPoints
        ELSE scores[p]]

\* the Judge answered; scores and history are computed from the snapshot
\* and written with status 'results' in one updateOne
JudgeWrite(r) ==
    /\ r \in InFlight /\ r.kind = "judge" /\ r.pc = "write"
    /\ IF roomExists
       THEN \E res \in JudgeOutcomes(r.answers) :
              gs' = [gs EXCEPT
                       !.status = "results",
                       !.judgingResult = res,
                       !.scores = Award(r.scores, res.winners),
                       !.roundHistory =
                           IF HasEntry(r.roundHistory, r.round)
                           THEN r.roundHistory
                           ELSE SetAt(r.roundHistory, r.round,
                                      [set |-> TRUE, round |-> r.round,
                                       category |-> r.category,
                                       question |-> r.question,
                                       answers |-> r.answers,
                                       winners |-> res.winners,
                                       explanation |-> res.explanation])]
       ELSE UNCHANGED gs
    /\ Retire(r)
    /\ UNCHANGED <<roomExists, roomStatus, players, sockVars, delVars,
                   timerVars, histVars>>
    /\ CacheKept

(***************************************************************************)
(* socket.on('nextRound') and startNextRound                               *)
(***************************************************************************)
\* registry lookup, findOne, host and phase checks, last-round test
NextRoundChecks(s) ==
    LET pid == socketToPlayer[s]
        i == FindPlayer(players, pid)
        currentRound == IF gs.round = 0 THEN 1 ELSE gs.round
    IN  /\ Registered(s)
        /\ Room(1)
        /\ roomExists
        /\ i # 0 /\ players[i].isHost
        /\ gs.status = "results"
        /\ Spawn([kind |-> "nextRound", sock |-> s,
                  pc |-> IF currentRound >= gs.totalRounds
                         THEN "over" ELSE "find",
                  roundNumber |-> currentRound + 1])
        /\ UNCHANGED <<dbVars, sockVars, delVars, timerVars, histVars>>
        /\ CacheKept

NextRoundFind(s) == Idle(s) /\ NextRoundChecks(s)

\* the host's client emits nextRound again before the first handler has
\* written
NextRoundAgain(s) == Repeated(s) /\ NextRoundChecks(s)

\* findOneAndUpdate {$set: {'gameState.status': 'game-over'}}
NextRoundOver(r) ==
    /\ r \in InFlight /\ r.kind = "nextRound" /\ r.pc = "over"
    /\ IF roomExists
       THEN gs' = [gs EXCEPT !.status = "game-over"]
       ELSE UNCHANGED gs
    /\ Retire(r)
    /\ UNCHANGED <<roomExists, roomStatus, players, sockVars, delVars,
                   timerVars, histVars>>
    /\ CacheKept

\* startNextRound: findOne; selector and available categories.  Object.entries
\* of the stored scores map yields no numeric score, so the selector is the
\* random pick among the players; a hole in the history makes the category
\* scan throw and the round is not started
StartNextRoundFind(r) ==
    LET used == {gs.roundHistory[i].category : i \in DOMAIN gs.roundHistory}
        available == IF Categories \ used = {} THEN Categories
                                               ELSE Categories \ used
        selectors == IF Len(players) = 0 THEN {""} ELSE Ids(players)
    IN  /\ r \in InFlight /\ r.kind = "nextRound" /\ r.pc = "find"
        /\ IF roomExists
              /\ \A i \in DOMAIN gs.roundHistory : gs.roundHistory[i].set
           THEN \E sel \in selectors :
                  Become(r, [kind |-> "nextRound", sock |-> r.sock,
                             pc |-> "set", roundNumber |-> r.roundNumber,
                             selector |-> sel, categories |-> available])
           ELSE Retire(r)
        /\ UNCHANGED <<dbVars, sockVars, delVars, timerVars, histVars>>
        /\ CacheKept

\* findOneAndUpdate to category-selection of round roundNumber
StartNextRoundSet(r) ==
    /\ r \in InFlight /\ r.kind = "nextRound" /\ r.pc = "set"
    /\ IF roomExists
       THEN /\ gs' = [gs EXCEPT !.status = "category-selection",
                                !.round = r.roundNumber,
                                !.categorySelector = r.selector,
                                !.categories = r.categories,
                                !.answers = NoAnswers]
            /\ roundStart' = gs.scores
       ELSE UNCHANGED <<gs, roundStart>>
    /\ Retire(r)
    /\ UNCHANGED <<roomExists, roomStatus, players, sockVars, delVars,
                   timerVars, games, judgeCalls>>
    /\ CacheKept

(***************************************************************************)
(* Initial state: POST /api/rooms/create made the room with host A         *)
(***************************************************************************)
Init ==
    /\ roomExists = TRUE
    /\ roomStatus = "waiting"
    /\ players = <<Player("A", TRUE, TRUE)>>
    /\ gs = DefaultGameState
    /\ socketToPlayer = [s \in Sockets |-> None]
    /\ sockUp = [s \in Sockets |-> FALSE]
    /\ joined = {}
    /\ pendingRoomDeletions = "none"
    /\ orphanTimers = 0
    /\ readDelays = 0
    /\ timers = EmptyBag
    /\ procs = EmptyBag
    /\ games = 0
    /\ judgeCalls = [n \in 1..TotalRounds |-> 0]
    /\ roundStart = NoScores
    /\ roomCache = "none"

\* connections arriving: handshake, reconnect and join
Arrive(SS) ==
    \/ \E s \in SS : Connection(s)
    \/ \E r \in InFlight : ConnectionUpdate(r)
    \/ \E s \in SS : PlayerReconnectedFind(s)
    \/ \E r \in InFlight : PlayerReconnectedUpdate(r)
    \/ \E s \in SS : JoinRoomRejoin(s)
    \/ \E s \in SS : JoinRoomFind(s)
    \/ \E r \in InFlight : JoinRoomReconnect(r)
    \/ \E r \in InFlight : JoinRoomPush(r)
    \/ OrphanTimeout

\* connections and players going: disconnect, leave, kick, room deletion
Depart(SS) ==
    \/ \E s \in SS : Disconnect(s)
    \/ \E r \in InFlight : DisconnectUpdate(r)
    \/ \E r \in InFlight : DisconnectCleanup(r)
    \/ \E s \in SS : LeaveRoomFind(s)
    \/ \E r \in InFlight : LeaveRoomPull(r)
    \/ \E r \in InFlight : LeaveRoomTransfer(r)
    \/ \E r \in InFlight : LeaveRoomAssign(r)
    \/ \E s \in SS, t \in PlayerIds : KickPlayerFind(s, t)
    \/ \E r \in InFlight : KickPlayerPull(r)
    \/ DeletionTimeout
    \/ \E r \in InFlight : DeletionCheck(r)
    \/ \E r \in InFlight : DeletionDelete(r)

Membership(SS) == Arrive(SS) \/ Depart(SS)

\* the connections of the lobby scenario
LobbySockets == {"s1", "s2"}

Next == Membership(LobbySockets)

Spec == Init /\ [][Next]_vars

(***************************************************************************)
(* A game: the lobby of A (host) and B, both connected through s1 and s2,  *)
(* a state the membership handlers reach from Init                         *)
(***************************************************************************)
InitGame ==
    /\ roomExists = TRUE
    /\ roomStatus = "waiting"
    /\ players = <<Player("A", TRUE, TRUE), Player("B", FALSE, TRUE)>>
    /\ gs = DefaultGameState
    /\ socketToPlayer = [s \in Sockets |-> IF s \in LobbySockets THEN Owner(s)
                                                                  ELSE None]
    /\ sockUp = [s \in Sockets |-> s \in LobbySockets]
    /\ joined = LobbySockets
    /\ pendingRoomDeletions = "none"
    /\ orphanTimers = 0
    /\ readDelays = 0
    /\ timers = EmptyBag
    /\ procs = EmptyBag
    /\ games = 0
    /\ judgeCalls = [n \in 1..TotalRounds |-> 0]
    /\ roundStart = NoScores
    /\ roomCache = "fresh"

\* a round: from the category selection to the results
Round(SS) ==
    \/ \E s \in SS, c \in CategoryInputs : SelectCategoryFind(s, c)
    \/ \E r \in InFlight : SelectCategorySet(r)
    \/ ReadDelayTimeout
    \/ \E r \in InFlight : ReadDelayCheck(r)
    \/ \E r \in InFlight : ReadDelaySet(r)
    \/ \E r \in InFlight : StartAnswerTimer(r)
    \/ \E t \in BagToSet(timers) : Tick(t)
    \/ \E s \in SS, text \in TextInputs : SubmitAnswerFind(s, text)
    \/ \E r \in InFlight : SubmitAnswerSave(r)
    \/ \E s \in SS : TriggerJudgingFind(s)
    \/ \E r \in InFlight : JudgeFind(r)
    \/ \E r \in InFlight : JudgeSetJudging(r)
    \/ \E r \in InFlight : JudgeWrite(r)

\* a game start and its round
Play(SS) ==
    \/ \E s \in SS : StartGameFind(s)
    \/ \E r \in InFlight : StartGameSet(r)
    \/ Round(SS)

\* from the results to the next round or the end of the game
Advance(SS) ==
    \/ \E s \in SS : NextRoundFind(s)
    \/ \E r \in InFlight : NextRoundOver(r)
    \/ \E r \in InFlight : StartNextRoundFind(r)
    \/ \E r \in InFlight : StartNextRoundSet(r)

NextGame == Play(LobbySockets) \/ Advance(LobbySockets)

SpecGame == InitGame /\ [][NextGame]_vars

(***************************************************************************)
(* A game with players going: connections drop, players leave or are       *)
(* kicked, and the emptied room is deleted, while a round is played        *)
(***************************************************************************)
NextLeave == Play(LobbySockets) \/ Depart(LobbySockets)

SpecLeave == InitGame /\ [][NextLeave]_vars

(***************************************************************************)
(* Round 1 of a two-player game has been judged (only A answered, the      *)
(* countdown reached zero, A won), a state SpecGame reaches.               *)
(* SpecRematch: the host asks for a new game instead of the next round.    *)
(* SpecAway: connections come and go around the judged room.               *)
(***************************************************************************)
RoundOne ==
    [set |-> TRUE, round |-> 1, category |-> "business",
     question |-> Question("business"),
     answers |-> [NoAnswers EXCEPT !["A"] = "yes"],
     winners |-> {"A"}, explanation |-> "text"]

JudgedGameState ==
    [DefaultGameState EXCEPT
       !.status = "results",
       !.round = 1,
       !.totalRounds = TotalRounds,
       !.categorySelector = "A",
       !.categories = Categories,
       !.currentCategory = "business",
       !.judgingStyle = "humor",
       !.question = Question("business"),
       !.timeRemaining = AnswerSeconds,
       !.answers = [NoAnswers EXCEPT !["A"] = "yes"],
       !.scores = [p \in PlayerIds |-> IF p = "A" THEN WinPoints
                                       ELSE IF p = "B" THEN 0 ELSE Absent],
       !.judgingResult = [winners |-> {"A"}, explanation |-> "text"],
       !.roundHistory = <<RoundOne>>]

InitJudged ==
    /\ roomExists = TRUE
    /\ roomStatus = "playing"
    /\ players = <<Player("A", TRUE, TRUE), Player("B", FALSE, TRUE)>>
    /\ gs = JudgedGameState
    /\ socketToPlayer = [s \in Sockets |-> IF s \in LobbySockets THEN Owner(s)
                                                                  ELSE None]
    /\ sockUp = [s \in Sockets |-> s \in LobbySockets]
    /\ joined = LobbySockets
    /\ pendingRoomDeletions = "none"
    /\ orphanTimers = 0
    /\ readDelays = 0
    /\ timers = EmptyBag
    /\ procs = EmptyBag
    /\ games = 0
    /\ judgeCalls = [n \in 1..TotalRounds |-> IF n = 1 THEN 1 ELSE 0]
    /\ roundStart = [p \in PlayerIds |-> IF p \in {"A", "B"} THEN 0
                                                              ELSE Absent]
    /\ roomCache = "stale"

NextRematch == Play(LobbySockets)

SpecRematch == InitJudged /\ [][NextRematch]_vars

SpecAway == InitJudged /\ [][Next]_vars

(***************************************************************************)
(* Round 1 of a two-player game is in answering: the selector picked the   *)
(* category, the read delay passed and the countdown runs, a state         *)
(* SpecGame reaches.  SpecKick: answers come in while connections drop and *)
(* come back and the host kicks.  SpecRound: one round from the category   *)
(* selection that startGame leaves to the results.                         *)
(***************************************************************************)
AnsweringGameState ==
    [DefaultGameState EXCEPT
       !.status = "answering",
       !.round = 1,
       !.totalRounds = TotalRounds,
       !.categorySelector = "A",
       !.categories = Categories,
       !.currentCategory = "business",
       !.judgingStyle = "humor",
       !.question = Question("business"),
       !.timeRemaining = AnswerSeconds,
       !.scores = [p \in PlayerIds |-> IF p \in {"A", "B"} THEN 0
                                                              ELSE Absent]]

InitAnswering ==
    /\ roomExists = TRUE
    /\ roomStatus = "playing"
    /\ players = <<Player("A", TRUE, TRUE), Player("B", FALSE, TRUE)>>
    /\ gs = AnsweringGameState
    /\ socketToPlayer = [s \in Sockets |-> IF s \in LobbySockets THEN Owner(s)
                                                                  ELSE None]
    /\ sockUp = [s \in Sockets |-> s \in LobbySockets]
    /\ joined = LobbySockets
    /\ pendingRoomDeletions = "none"
    /\ orphanTimers = 0
    /\ readDelays = 0
    /\ timers = One([timeRemaining |-> TimerTicks, gameStatus |-> "answering",
                     sinceCheck |-> 0, currentRound |-> 1])
    /\ procs = EmptyBag
    /\ games = 1
    /\ judgeCalls = [n \in 1..TotalRounds |-> 0]
    /\ roundStart = AnsweringGameState.scores
    /\ roomCache = "fresh"

\* the room in category-selection of round 1, as startGame leaves it
SelectingGameState ==
    [DefaultGameState EXCEPT
       !.status = "category-selection",
       !.round = 1,
       !.totalRounds = TotalRounds,
       !.categorySelector = "A",
       !.categories = Categories,
       !.scores = [p \in PlayerIds |-> IF p \in {"A", "B"} THEN 0
                                                              ELSE Absent]]

InitSelecting ==
    /\ roomExists = TRUE
    /\ roomStatus = "playing"
    /\ players = <<Player("A", TRUE, TRUE), Player("B", FALSE, TRUE)>>
    /\ gs = SelectingGameState
    /\ socketToPlayer = [s \in Sockets |-> IF s \in LobbySockets THEN Owner(s)
                                                                  ELSE None]
    /\ sockUp = [s \in Sockets |-> s \in LobbySockets]
    /\ joined = LobbySockets
    /\ pendingRoomDeletions = "none"
    /\ orphanTimers = 0
    /\ readDelays = 0
    /\ timers = EmptyBag
    /\ procs = EmptyBag
    /\ games = 1
    /\ judgeCalls = [n \in 1..TotalRounds |-> 0]
    /\ roundStart = SelectingGameState.scores
    /\ roomCache = "stale"

NextRound == Round(LobbySockets)

SpecRound == InitSelecting /\ [][NextRound]_vars

NextKick ==
    \/ \E s \in LobbySockets : Connection(s)
    \/ \E r \in InFlight : ConnectionUpdate(r)
    \/ \E s \in LobbySockets : Disconnect(s)
    \/ \E r \in InFlight : DisconnectUpdate(r)
    \/ \E r \in InFlight : DisconnectCleanup(r)
    \/ \E s \in LobbySockets, t \in PlayerIds : KickPlayerFind(s, t)
    \/ \E r \in InFlight : KickPlayerPull(r)
    \/ \E s \in LobbySockets, text \in TextInputs : SubmitAnswerFind(s, text)
    \/ \E r \in InFlight : SubmitAnswerSave(r)

SpecKick == InitAnswering /\ [][NextKick]_vars

(***************************************************************************)
(* Two tabs of B's browser (s2, s4) around the lobby of A and B: each tab  *)
(* connects with or without the identity in its handshake, announces       *)
(* itself with playerReconnected or joinRoom, and drops.                   *)
(***************************************************************************)
TabSockets == {"s2", "s4"}

NextTabs ==
    \/ \E s \in TabSockets : Connection(s)
    \/ \E s \in TabSockets : ConnectionBare(s)
    \/ \E r \in InFlight : ConnectionUpdate(r)
    \/ \E s \in TabSockets : PlayerReconnectedFind(s)
    \/ \E r \in InFlight : PlayerReconnectedUpdate(r)
    \/ \E s \in TabSockets : JoinRoomRejoin(s)
    \/ \E s \in TabSockets : JoinRoomFind(s)
    \/ \E r \in InFlight : JoinRoomReconnect(r)
    \/ \E s \in TabSockets : Disconnect(s)
    \/ \E r \in InFlight : DisconnectUpdate(r)
    \/ \E r \in InFlight : DisconnectCleanup(r)

SpecTabs == InitGame /\ [][NextTabs]_vars

(***************************************************************************)
(* Newcomers: B (s2) and C (s3) connect to the lobby of A and join it,     *)
(* drop and come back.                                                     *)
(***************************************************************************)
JoinSockets == {"s2", "s3"}

NextJoin ==
    \/ \E s \in JoinSockets : Connection(s)
    \/ \E r \in InFlight : ConnectionUpdate(r)
    \/ \E s \in JoinSockets : JoinRoomRejoin(s)
    \/ \E s \in JoinSockets : JoinRoomFind(s)
    \/ \E r \in InFlight : JoinRoomReconnect(r)
    \/ \E r \in InFlight : JoinRoomPush(r)
    \/ \E s \in JoinSockets : Disconnect(s)
    \/ \E r \in InFlight : DisconnectUpdate(r)
    \/ \E r \in InFlight : DisconnectCleanup(r)

SpecJoin == Init /\ [][NextJoin]_vars

\* a lobby one short of its capacity: host A and six more players who take
\* no part in what follows
Filler(n) ==
    [id |-> <<"filler", n>>, nickname |-> <<"filler", n>>, isHost |-> FALSE,
     isConnected |-> TRUE]

InitCrowded ==
    /\ roomExists = TRUE
    /\ roomStatus = "waiting"
    /\ players = <<Player("A", TRUE, TRUE)>>
                    \o [n \in 1..(RoomCap - 2) |-> Filler(n)]
    /\ gs = DefaultGameState
    /\ socketToPlayer = [s \in Sockets |-> None]
    /\ sockUp = [s \in Sockets |-> FALSE]
    /\ joined = {}
    /\ pendingRoomDeletions = "none"
    /\ orphanTimers = 0
    /\ readDelays = 0
    /\ timers = EmptyBag
    /\ procs = EmptyBag
    /\ games = 0
    /\ judgeCalls = [n \in 1..TotalRounds |-> 0]
    /\ roundStart = NoScores
    /\ roomCache = "fresh"

SpecCrowded == InitCrowded /\ [][NextJoin]_vars

(***************************************************************************)
(* Repeated events.  SpecSelect: one round from category-selection, where  *)
(* the selector's client may emit selectCategory twice.  SpecAdvance: from *)
(* the results of round 1 on, where the host's client may emit nextRound   *)
(* twice and the selector picks any category.                              *)
(***************************************************************************)
NextSelect ==
    \/ Round(LobbySockets)
    \/ \E s \in LobbySockets, c \in CategoryInputs : SelectCategoryAgain(s, c)

SpecSelect == InitSelecting /\ [][NextSelect]_vars

NextAdvance ==
    \/ Round(LobbySockets)
    \/ Advance(LobbySockets)
    \/ \E s \in LobbySockets : NextRoundAgain(s)
    \/ \E s \in LobbySockets, c \in Categories : SelectCategoryFind(s, c)

SpecAdvance == InitJudged /\ [][NextAdvance]_vars

(***************************************************************************)
(* The lobby of A (host) and B with players going, where a client may emit *)
(* leaveRoom while an earlier event of its connection is being handled.    *)
(***************************************************************************)
NextGoing ==
    \/ Depart(LobbySockets)
    \/ \E s \in LobbySockets : LeaveRoomAgain(s)

SpecGoing == InitGame /\ [][NextGoing]_vars

(***************************************************************************)
(* Properties                                                              *)
(***************************************************************************)

\* C1: in every round the Judge (AIService.judgeAnswers) is called at most
\* once, whichever of full coverage, countdown zero and triggerJudging start
\* the judging.
JudgeOncePerRound == \A n \in DOMAIN judgeCalls : judgeCalls[n] <= 1

\* C2: a room with a non-empty player list has at most one player with
\* isHost = true.
AtMostOneHost == Len(players) > 0 => Cardinality(Hosts(players)) <= 1

\* C3: in the results of a round every score is the score the round began
\* with plus 3 for a winner of the round's judgingResult and plus 0 for
\* anyone else; the award is applied once.
AwardedOnce ==
    gs.status = "results" =>
        \A p \in PlayerIds :
            (IF gs.scores[p] = Absent THEN 0 ELSE gs.scores[p])
              = (IF roundStart[p] = Absent THEN 0 ELSE roundStart[p])
                  + (IF p \in gs.judgingResult.winners THEN WinPoints ELSE 0)

\* the steps of a connection's disconnect handler
DisconnectStep(r) == DisconnectUpdate(r) \/ DisconnectCleanup(r)

\* C4: a step of the disconnect handler of a connection leaves the room as
\* it is, but for isConnected = false of that connection's player: the player
\* list keeps its members, their order and their isHost, and the game state
\* (phase, answers, scores) and the room's existence are unchanged.  A player
\* leaves the list only in the $pull of leaveRoom, the $pull of kickPlayer or
\* the deletion of the room after the grace period.  (Holds around a judged
\* room, SpecAway, and with a round being played, SpecLeave.)
DisconnectOnlyMarks ==
    [][/\ \A s \in Sockets : Disconnect(s) => UNCHANGED dbVars
       /\ \A r \in InFlight :
            DisconnectStep(r) =>
              /\ UNCHANGED <<roomExists, roomStatus, gs>>
              /\ Len(players') = Len(players)
              /\ \A i \in DOMAIN players :
                   /\ players'[i].id = players[i].id
                   /\ players'[i].isHost = players[i].isHost
                   /\ players'[i].isConnected # players[i].isConnected
                        => /\ players[i].id = r.pid
                           /\ players'[i].isConnected = FALSE
       /\ ~(Ids(players) \subseteq Ids(players')) =>
            \E r \in InFlight :
                LeaveRoomPull(r) \/ KickPlayerPull(r) \/ DeletionDelete(r)
      ]_vars

\* C4, reached: the host's connection dropped and its handler ran: the host
\* is still in the list, still host, and marked disconnected, in a game
\* with an answer and a score recorded.
HostMarkedAway ==
    /\ roomExists
    /\ gs.status = "results"
    /\ \E p \in PlayerIds : gs.answers[p] # None /\ gs.scores[p] > 0
    /\ \E i \in DOMAIN players :
         /\ players[i].isHost /\ ~players[i].isConnected
         /\ \A s \in Sockets : Owner(s) = players[i].id => ~sockUp[s]

\* C5: the step that records an answer with which every connected player
\* has answered finalizes the round: status judging, timeRemaining 0, an
\* entry of roundHistory for the round, and a judging pass started.
CoverageStartsJudging ==
    [][(/\ \E p \in PlayerIds : gs.answers[p] = None /\ gs'.answers[p] # None
        /\ \A q \in Connected(players) :
               q \in PlayerIds /\ gs'.answers[q] # None)
       => /\ gs'.status = "judging"
          /\ gs'.timeRemaining = 0
          /\ HasEntry(gs'.roundHistory, gs'.round)
          /\ \E j \in BagToSet(procs') : j.kind = "judge"
      ]_vars

\* C6: a room in answering or judging gets to results with no further client
\* event: something on the server is still to run (a handler in flight, a
\* countdown, a read-delay timeout), for otherwise only a client event can
\* change the room.
JudgingProceeds ==
    gs.status \in {"answering", "judging"} =>
        procs # EmptyBag \/ timers # EmptyBag \/ readDelays > 0

\* C7: once the status of the round is judging or later, no step records an
\* answer: the answers map only stays as it is or is cleared for a new
\* round.
LateAnswerRejected ==
    [][gs.status \in {"judging", "results", "game-over"}
       => \A p \in PlayerIds : gs'.answers[p] \in {gs.answers[p], None}
      ]_vars

\* C8: in the results of a round, every recorded answer is in the round's
\* roundHistory entry (which holds the answers the Judge was given).
RecordedAnswersJudged ==
    gs.status = "results" =>
        /\ HasEntry(gs.roundHistory, gs.round)
        /\ \A p \in PlayerIds :
             gs.answers[p] # None
               => gs.roundHistory[gs.round].answers[p] = gs.answers[p]

\* C9: gameState.status changes only along the edges of the phase machine;
\* nothing leaves game-over.
StatusFollowsEdges ==
    [][gs'.status # gs.status
       => <<gs.status, gs'.status>> \in
            {<<"waiting", "category-selection">>,
             <<"category-selection", "question-display">>,
             <<"question-display", "answering">>,
             <<"answering", "judging">>,
             <<"judging", "results">>,
             <<"results", "category-selection">>,
             <<"results", "game-over">>}
      ]_vars

\* C10: a startGame changes the game state only in a room that is in
\* waiting; applied to a room in any other phase it leaves status, scores,
\* round and roundHistory as they are.
StartGameOnlyInWaiting ==
    [][\A r \in InFlight :
          StartGameSet(r) /\ gs.status # "waiting"
            => /\ gs'.status = gs.status
               /\ gs'.scores = gs.scores
               /\ gs'.round = gs.round
               /\ gs'.roundHistory = gs.roundHistory
      ]_vars

\* C11: the write of an accepted startGame leaves status category-selection,
\* round 1, an empty roundHistory, no answers, a score of 0 for exactly the
\* players in the list, and a categorySelector who is in the list.
StartGameInitializes ==
    [][\A r \in InFlight :
          StartGameSet(r) /\ roomExists
            => /\ gs'.status = "category-selection"
               /\ gs'.round = 1
               /\ gs'.roundHistory = << >>
               /\ gs'.answers = NoAnswers
               /\ Keys(gs'.scores, Absent) = Ids(players')
               /\ \A p \in Ids(players') : gs'.scores[p] = 0
               /\ gs'.categorySelector \in Ids(players')
      ]_vars

\* C12: the write of an accepted selectCategory leaves status
\* question-display with a non-empty question, a judgingStyle and
\* timeRemaining 180, and the read-delay timeout armed; as long as the room
\* is in question-display that timeout or its callback is pending; the
\* callback's write to a room still in question-display sets answering with
\* timeRemaining 180, and startAnswerTimer on a room still in answering
\* starts a countdown of the full length.
ReadDelayStartsAnswering ==
    [][/\ \A r \in InFlight :
            SelectCategorySet(r) /\ roomExists
              => /\ gs'.status = "question-display"
                 /\ gs'.question \notin {None, ""}
                 /\ gs'.judgingStyle # None
                 /\ gs'.timeRemaining = AnswerSeconds
                 /\ readDelays' = readDelays + 1
       /\ gs'.status = "question-display"
            => \/ readDelays' > 0
               \/ \E q \in BagToSet(procs') :
                     q.kind = "readDelay" /\ q.pc \in {"check", "set"}
       /\ \A r \in InFlight :
            ReadDelaySet(r) /\ roomExists /\ gs.status = "question-display"
              => /\ gs'.status = "answering"
                 /\ gs'.timeRemaining = AnswerSeconds
       /\ \A r \in InFlight :
            StartAnswerTimer(r) /\ roomExists /\ gs.status = "answering"
              => \E t \in BagToSet(timers') :
                    /\ t.timeRemaining = TimerTicks
                    /\ CopiesIn(t, timers') = CopiesIn(t, timers) + 1
      ]_vars

\* C12, reached: the selector's category was stored, the read delay passed,
\* and the room is in answering with timeRemaining 180 and a countdown of
\* the full length running.
CountdownStarted ==
    /\ gs.status = "answering"
    /\ gs.currentCategory \in CategoryInputs
    /\ gs.question # None
    /\ gs.timeRemaining = AnswerSeconds
    /\ procs = EmptyBag
    /\ \E t \in BagToSet(timers) : t.timeRemaining = TimerTicks

\* C13: the step that completes the leaveRoom of the host, with a player
\* left in the existing room, leaves a host in the list, and that host is
\* the first player in list order who is connected.
HostLeaveTransfers ==
    [][\A r \in InFlight :
          (/\ r.kind = "leaveRoom" /\ r.wasHost
           /\ LeaveRoomPull(r) \/ LeaveRoomTransfer(r) \/ LeaveRoomAssign(r)
           /\ \A q \in BagToSet(procs') : q.kind = "leaveRoom" => q.sock # r.sock
           /\ roomExists /\ Len(players') > 0)
            => \E i \in DOMAIN players' :
                  /\ players'[i].isHost
                  /\ players'[i].isConnected
                  /\ \A j \in 1..(i - 1) : ~players'[j].isConnected
      ]_vars

\* the callbacks of the deletion timer in flight
Deleting(b) == BagCardinality([r \in {q \in BagToSet(b) : q.kind = "deletion"}
                                 |-> b[r]])

DeletesOnlyEmptyRoom ==
    [][\A r \in InFlight :
          DeletionDelete(r) /\ roomExists => Len(players) = 0
      ]_vars

\* C16: the write of an accepted kickPlayer leaves the target out of the
\* player list with no live connection registered for it, and from then on
\* no event of a connection of the kicked player is accepted: a submitAnswer
\* passes its checks only on a connection whose player is in the list.
KickedCannotAct ==
    [][/\ \A r \in InFlight :
            KickPlayerPull(r) /\ roomExists
              => /\ r.target \notin Ids(players')
                 /\ \A s \in Sockets :
                      socketToPlayer'[s] = r.target => ~sockUp'[s]
       /\ \A s \in Sockets, text \in TextInputs :
            SubmitAnswerFind(s, text)
              => FindPlayer(players, socketToPlayer[s]) # 0
      ]_vars

\* C17: every key of gameState.answers is the id of a player in the list.
AnswersOfPlayers == Keys(gs.answers, None) \subseteq Ids(players)

\* C19: a step that takes the round into judging leaves no more answers in
\* gameState.answers than there are players with isConnected = true.
AnswersWithinConnected ==
    [][(gs.status # "judging" /\ gs'.status = "judging")
         => Cardinality(Keys(gs'.answers, None))
              <= Cardinality({i \in DOMAIN players' : players'[i].isConnected})
      ]_vars

\* C18: in the results of round r roundHistory has exactly r entries, and
\* the entry of round r holds the round's category and question and the
\* winners and explanation of judgingResult.
HistoryRecordsResult ==
    gs.status = "results" =>
        /\ Len(gs.roundHistory) = gs.round
        /\ \A i \in DOMAIN gs.roundHistory : gs.roundHistory[i].set
        /\ HasEntry(gs.roundHistory, gs.round)
        /\ LET e == gs.roundHistory[gs.round]
           IN  /\ e.category = gs.currentCategory
               /\ e.question = gs.question
               /\ e.winners = gs.judgingResult.winners
               /\ e.explanation = gs.judgingResult.explanation

\* C20: a playerId has at most one live connection registered.
OneLiveConnection ==
    \A p \in PlayerIds :
        Cardinality({s \in Sockets : sockUp[s] /\ socketToPlayer[s] = p}) <= 1

\* String.prototype.toLowerCase over the nicknames of the model
Lower(n) == IF n = "Bob" THEN "bob" ELSE n

\* C21: no two players of the room have nicknames that are equal when
\* letter case is ignored.
NicknamesDifferIgnoringCase ==
    \A i, j \in DOMAIN players :
        i # j => Lower(players[i].nickname) # Lower(players[j].nickname)

\* C22: the player list never holds more than RoomCap (8) players, also
\* when joins run concurrently.
AtMostEightPlayers == Len(players) <= RoomCap

\* C23: every completed mutation has removed the room's cache entry, so
\* that a read through the Room Cache cannot return a state older than the
\* latest mutation: whenever no handler is in progress, the cache holds no
\* entry that is behind the store.
CacheNeverBehind == procs = EmptyBag => roomCache # "stale"

\* C24: a countdown that reaches zero while the room is not in answering is
\* a no-op: it starts no judging pass and leaves the game state alone.
ZeroOutsideAnsweringIsNoOp ==
    [][\A t \in BagToSet(timers) :
          Tick(t) /\ t.timeRemaining - 1 <= 0
                  /\ ~(roomExists /\ gs.status = "answering")
            => procs' = procs /\ gs' = gs]_vars

\* C25: the judging pass of a countdown changes nothing once the room has
\* left the answering phase the countdown was started for: it does not set
\* the status back to judging or results and writes no scores, judgingResult
\* or roundHistory, in the same round or a later one.
StaleCountdownInert ==
    [][\A r \in InFlight :
          /\ r.kind = "judge" /\ r.sock = None
          /\ \/ JudgeSetJudging(r) /\ gs.status # "answering"
             \/ JudgeWrite(r) /\ gs.round # r.round
          => gs' = gs]_vars

\* C26: a reconciliation read made while the room is outside the answering
\* phase the countdown was started in (another phase, another round, or the
\* room deleted) clears the countdown: it never goes on ticking past that
\* read.
CountdownStopsAfterPhase ==
    [][\A t \in BagToSet(timers) :
          Tick(t) /\ ~(/\ roomExists
                       /\ gs.status = "answering"
                       /\ gs.round = t.currentRound)
            => \A u \in BagToSet(timers') :
                  /\ u.currentRound = t.currentRound
                  /\ u.timeRemaining = t.timeRemaining - 1
                  /\ u.sinceCheck = 0
                  => CopiesIn(u, timers') <= CopiesIn(u, timers)]_vars

\* C27: the read-delay callback sets answering only if the room is in
\* question-display at the moment of its write; otherwise it changes
\* nothing.
ReadDelayWritesInQuestionDisplay ==
    [][\A r \in InFlight :
          ReadDelaySet(r) /\ ~(roomExists /\ gs.status = "question-display")
            => gs' = gs]_vars

\* C28: whenever no handler is in progress and the room is in answering, a
\* connected player has no recorded answer.
AnsweringAwaitsSomeone ==
    procs = EmptyBag /\ roomExists /\ gs.status = "answering"
      => \E p \in Connected(players) :
            p \notin PlayerIds \/ gs.answers[p] = None

\* C29: the winners a judging pass writes are among the ids with an answer
\* in its snapshot; the fallback names exactly one respondent; with no
\* answers there is no winner and the scores stay as they are.
WinnersAmongRespondents ==
    [][\A r \in InFlight :
          JudgeWrite(r) /\ roomExists
            => /\ gs'.judgingResult.winners \subseteq Keys(r.answers, None)
               /\ gs'.judgingResult.explanation = "on break"
                    => Cardinality(gs'.judgingResult.winners) = 1
               /\ Keys(r.answers, None) = {}
                    => /\ gs'.judgingResult.winners = {}
                       /\ gs'.scores = gs.scores]_vars

\* C30: submitAnswer accepts an answer for recording only from a caller who
\* is a player of the room marked connected, with a text that is not empty
\* after trimming, and who has no answer recorded in the round.
AnswerRecordedForConnectedPlayer ==
    [][\A s \in Sockets, text \in TextInputs :
          SubmitAnswerFind(s, text)
            => /\ \E i \in DOMAIN players :
                     /\ players[i].id = socketToPlayer[s]
                     /\ players[i].isConnected
               /\ Trim(text) # ""
               /\ gs.answers[socketToPlayer[s]] = None]_vars

\* C31: selectCategory changes the room only when, at its write, the caller
\* is the categorySelector and the status is category-selection; otherwise
\* it changes nothing and arms no read-delay timeout, so that concurrent
\* selectCategory events of one round arm at most one.
SelectCategoryOnlyBySelector ==
    [][\A r \in InFlight :
          SelectCategorySet(r)
            /\ ~(/\ roomExists
                 /\ gs.status = "category-selection"
                 /\ gs.categorySelector = r.pid)
            => gs' = gs /\ readDelays' = readDelays]_vars

\* C32: nextRound changes the room only when, at its write, the caller is
\* the host and the status is results; then a last round ends in game-over
\* with the round unchanged, and any other round is followed by
\* category-selection of the next round with the answers emptied and the
\* scores unchanged.
NextRoundStep ==
    [][\A r \in InFlight :
          r.kind = "nextRound" /\ (NextRoundOver(r) \/ StartNextRoundSet(r))
            => IF /\ roomExists
                  /\ gs.status = "results"
                  /\ \E i \in DOMAIN players :
                        /\ players[i].id = socketToPlayer[r.sock]
                        /\ players[i].isHost
               THEN IF gs.round >= gs.totalRounds
                    THEN gs' = [gs EXCEPT !.status = "game-over"]
                    ELSE /\ gs'.status = "category-selection"
                         /\ gs'.round = gs.round + 1
                         /\ gs'.answers = NoAnswers
                         /\ gs'.scores = gs.scores
               ELSE gs' = gs]_vars

\* C33: the categorySelector that nextRound writes for a new round is a
\* player whose score is minimal among the scores, or any player of the
\* room when there are no scores.
SelectorHasLowestScore ==
    [][\A r \in InFlight :
          StartNextRoundSet(r) /\ roomExists
            => LET scored == Keys(gs.scores, Absent)
               IN  IF scored = {}
                   THEN gs'.categorySelector \in Ids(players)
                   ELSE /\ gs'.categorySelector \in scored
                        /\ \A p \in scored :
                              gs.scores[gs'.categorySelector] <= gs.scores[p]
         ]_vars

\* C34: in category-selection the categories on offer are the full set
\* without the categories of the rounds recorded in roundHistory, or the
\* full set when none is left; they are never empty.
CategoriesAreTheUnused ==
    gs.status = "category-selection"
      => LET used == {gs.roundHistory[i].category :
                         i \in {j \in DOMAIN gs.roundHistory :
                                   gs.roundHistory[j].set}}
         IN  /\ gs.categories # {}
             /\ gs.categories = IF Categories \ used = {} THEN Categories
                                ELSE Categories \ used

\* C40: a nextRound handler whose round has already been started by another
\* handler of the same results phase changes nothing: it does not set the
\* status back to category-selection or clear the round's question and
\* answers, and the round goes up by exactly one.
SecondNextRoundChangesNothing ==
    [][\A r \in InFlight :
          StartNextRoundSet(r) /\ gs.round >= r.roundNumber
            => gs' = gs]_vars

\* C35: the write of a kickPlayer removes a player only when, at that
\* moment, the caller is the host, the target is in the room and the target
\* is not the host; otherwise the player list is unchanged.  An accepted
\* kick removes exactly the target and leaves every remaining player's
\* isHost as it was.
KickOnlyByHost ==
    [][\A r \in InFlight :
          KickPlayerPull(r)
            => LET i == FindPlayer(players, r.pid)
                   t == FindPlayer(players, r.target)
               IN  IF /\ roomExists
                      /\ i # 0 /\ players[i].isHost
                      /\ t # 0 /\ ~players[t].isHost
                   THEN /\ Ids(players') = Ids(players) \ {r.target}
                        /\ \A j \in DOMAIN players, k \in DOMAIN players' :
                              players[j].id = players'[k].id
                                => players[j].isHost = players'[k].isHost
                   ELSE players' = players]_vars

\* C36: when a playerReconnected, or a joinRoom of a player already in the
\* room, completes, the player is in the list with isConnected true, the
\* connection is registered for the player and joined to the room's
\* broadcast group, and no deletion timer is pending for the room.
ReconnectedPlayerIsLive ==
    [][\A s \in Sockets :
          (\/ JoinRoomRejoin(s)
           \/ \E r \in InFlight :
                 /\ r.sock = s
                 /\ PlayerReconnectedUpdate(r) \/ JoinRoomReconnect(r))
            => /\ \E i \in DOMAIN players' :
                     /\ players'[i].id = Owner(s)
                     /\ players'[i].isConnected
               /\ socketToPlayer'[s] = Owner(s)
               /\ s \in joined'
               /\ pendingRoomDeletions' # "armed"
               /\ orphanTimers' = 0]_vars

\* C37: whenever no handler is in progress, a player of the room is stored
\* with isConnected true exactly when a live connection is registered for
\* that player; in particular the disconnect handler of an old connection,
\* interleaved with the registration of a new one, leaves no player with a
\* live connection marked disconnected.
ConnectedIffLiveConnection ==
    procs = EmptyBag /\ roomExists
      => \A i \in DOMAIN players :
            players[i].isConnected
              <=> \E s \in Sockets :
                     sockUp[s] /\ socketToPlayer[s] = players[i].id

\* C38: whenever the status is category-selection, categorySelector is the
\* id of a player currently in the room, also after a leaveRoom or a
\* kickPlayer of the selector and when nextRound takes the selector from
\* the scores.
SelectorIsAPlayer ==
    roomExists /\ gs.status = "category-selection"
      => gs.categorySelector \in Ids(players)

\* C39: at most one countdown timer runs for the room at any time; no
\* interleaving of selectCategory events and read-delay callbacks starts a
\* second countdown.
OneCountdown ==
    BagCardinality(timers) <= 1
====
